---- MODULE Spec2Model ----
(***************************************************************************)
(* Model of scripts/yfinance/yfinance_bridge.py: a single-shot bridge that *)
(* reads one JSON request from stdin, dispatches on its "action", calls    *)
(* the data provider, normalizes tabular results and writes one JSON       *)
(* envelope to stdout.                                                     *)
(*                                                                         *)
(* Python values are tagged records (TLC compares values of one shape      *)
(* only): None, str, int, float (NaN included), pandas Timestamp / NaT,    *)
(* datetime.date.  A float carries its numeric value as an integer: the    *)
(* model needs the type of a number and its identity, not its arithmetic.  *)
(***************************************************************************)
EXTENDS Integers, Sequences, FiniteSets, TLC

VARIABLES pc, stdin, payload, action, calls, handlers, raw, data, exc, stdout

vars == <<pc, stdin, payload, action, calls, handlers, raw, data, exc, stdout>>

(***************************************************************************)
(* Bounds of the model.                                                    *)
(***************************************************************************)
\* bars (rows) of a price-history table
MaxBars == 2
\* reporting periods (columns) of a statement table
MaxPeriods == 2
\* line items (rows) of a statement table
MaxItems == 2

(***************************************************************************)
(* Python values.                                                          *)
(***************************************************************************)
None == [t |-> "None"]
PyStr(s) == [t |-> "str", s |-> s]
PyInt(i) == [t |-> "int", i |-> i]
PyFloat(f) == [t |-> "float", f |-> f]
NaN == [t |-> "float", nan |-> TRUE]
Timestamp(d) == [t |-> "Timestamp", date |-> d]
PyDate(d) == [t |-> "date", date |-> d]
NaT == [t |-> "NaT"]
PyBool(b) == [t |-> "bool", b |-> b]
PyDict(d) == [t |-> "dict", d |-> d]
PyList(items) == [t |-> "list", items |-> items]

IsNaN(v) == v.t = "float" /\ "nan" \in DOMAIN v

\* A call that returns v, and a call that raises an exception whose str() is e.
Ret(v) == [raised |-> FALSE, value |-> v]
Raise(e) == [raised |-> TRUE, exc |-> e]

\* Texts that float() accepts, with the number each denotes.
NumericText == ("7" :> 7)

\* str(v)
str(v) ==
  CASE v.t = "str" -> v.s
    [] v.t = "int" -> ToString(v.i)
    [] v.t = "float" -> IF IsNaN(v) THEN "nan" ELSE ToString(v.f) \o ".0"
    [] v.t = "Timestamp" -> v.date \o " 00:00:00"
    [] v.t = "date" -> v.date
    [] v.t = "NaT" -> "NaT"
    [] OTHER -> "None"

\* float(v): the conversion of lines 49 and 69-73; raises on text that is no
\* number and on values that are neither text nor numbers.
float(v) ==
  CASE v.t = "int" -> Ret(PyFloat(v.i))
    [] v.t = "float" -> Ret(v)
    [] v.t = "str" ->
         IF v.s \in DOMAIN NumericText
           THEN Ret(PyFloat(NumericText[v.s]))
           ELSE Raise("could not convert string to float: '" \o v.s \o "'")
    [] OTHER -> Raise("float() argument must be a string or a real number, not '"
                      \o v.t \o "'")

\* pd.isna(val) on a scalar
IsNA(v) == IsNaN(v) \/ v.t \in {"None", "NaT"}

\* bool(v), as the `or` of line 62 tests it
Truthy(v) ==
  CASE v.t = "None" -> FALSE
    [] v.t = "str" -> v.s # ""
    [] v.t = "int" -> v.i # 0
    [] v.t = "float" -> IsNaN(v) \/ v.f # 0
    [] v.t = "dict" -> DOMAIN v.d # {} \/ "tuple_key" \in DOMAIN v
    [] v.t = "list" -> Len(v.items) > 0
    [] OTHER -> TRUE

\* dict assignment d[k] = v
DictSet(d, k, v) == (k :> v) @@ d

(***************************************************************************)
(* df_to_records (lines 27-53).  A statement table is                      *)
(* [columns: period labels, index: line-item labels, values: row by row].  *)
(***************************************************************************)
\* df.empty: some axis has length 0
IsEmpty(df) == Len(df.columns) = 0 \/ Len(df.index) = 0

\* hasattr(col, "date")
HasDate(col) == col.t \in {"Timestamp", "NaT"}

\* lines 33-39: the label a column is re-keyed to
ColumnLabel(col) ==
  IF HasDate(col)
    THEN IF col.t = "NaT"
           THEN str(col)        \* NaT.date() raises: the except branch
           ELSE col.date        \* col.date().isoformat()
    ELSE str(col)

\* lines 48-51: the value stored for a cell that is not missing
CoerceCell(val) ==
  IF val.t \in {"float", "int"} THEN float(val).value ELSE val

\* lines 45-51: the fields of one period, line items i..n taken in order
RECURSIVE RowFields(_, _, _, _)
RowFields(df, j, i, rec) ==
  IF i > Len(df.index) THEN rec
  ELSE LET val == df.values[i][j]
           key == str(df.index[i])
       IN  IF IsNA(val)
             THEN RowFields(df, j, i + 1, rec)
             ELSE RowFields(df, j, i + 1, DictSet(rec, key, CoerceCell(val)))

\* lines 43-52: the record of period j
PeriodRecord(df, j) ==
  PyDict(RowFields(df, j, 1,
                   "report_period" :> PyStr(str(PyStr(ColumnLabel(df.columns[j]))))))

df_to_records(df) ==
  IF df = None \/ IsEmpty(df) THEN PyList(<<>>)
  ELSE PyList([j \in 1..Len(df.columns) |-> PeriodRecord(df, j)])

(***************************************************************************)
(* normalize_history (lines 56-76).  A history table is                    *)
(* [index_name, index: one value per bar, rows: one mapping column ->      *)
(* value per bar].                                                         *)
(***************************************************************************)
\* df.reset_index(): the index becomes a column named after it, "index" when
\* it has no name
ResetIndex(df) ==
  LET name == IF df.index_name = None THEN "index" ELSE df.index_name.s
  IN  [i \in 1..Len(df.rows) |-> (name :> df.index[i]) @@ df.rows[i]]

\* row.get(key)
RowGet(row, key) == IF key \in DOMAIN row THEN row[key] ELSE None

\* lines 62-66
DateValue(row) ==
  LET first == RowGet(row, "Date")
      date_value == IF Truthy(first) THEN first ELSE RowGet(row, "Datetime")
  IN  CASE date_value.t = "Timestamp" -> PyStr(date_value.date \o "T00:00:00")
        [] date_value.t = "date" -> PyStr(date_value.date)
        [] OTHER -> date_value

\* a field read without the float() conversion
NumFieldUnconverted(row, col) == Ret(RowGet(row, col))

\* lines 69-73: float(row.get(col)) if row.get(col) is not None else None
NumField(row, col) ==
  IF RowGet(row, col) # None THEN float(RowGet(row, col)) ELSE Ret(None)

\* lines 67-74: the record of one row, or the first exception its fields raise
HistoryRecord(row) ==
  LET o == NumField(row, "Open")
      h == NumField(row, "High")
      l == NumField(row, "Low")
      c == NumField(row, "Close")
      v == NumField(row, "Volume")
  IN  IF o.raised THEN o
      ELSE IF h.raised THEN h
      ELSE IF l.raised THEN l
      ELSE IF c.raised THEN c
      ELSE IF v.raised THEN v
      ELSE Ret(PyDict([date |-> DateValue(row), open |-> o.value,
                       high |-> h.value, low |-> l.value,
                       close |-> c.value, volume |-> v.value]))

\* lines 61-75: rows i..n in table order, appended to records
RECURSIVE HistoryRows(_, _, _)
HistoryRows(rows, i, records) ==
  IF i > Len(rows) THEN Ret(PyList(records))
  ELSE LET r == HistoryRecord(rows[i])
       IN  IF r.raised THEN r
           ELSE HistoryRows(rows, i + 1, Append(records, r.value))

\* df.empty: no bar, or no column
IsEmptyHistory(df) == Len(df.rows) = 0 \/ DOMAIN df.rows[1] = {}

normalize_history(df) ==
  IF df = None \/ IsEmptyHistory(df) THEN Ret(PyList(<<>>))
  ELSE HistoryRows(ResetIndex(df), 1, <<>>)

(***************************************************************************)
(* JSON: json.loads on the request, json.dumps with default=_json_default  *)
(* on the response (lines 11-14, 24, 144).                                 *)
(***************************************************************************)
\* a dict one of whose keys is a tuple: json.dumps refuses it, default or not
TupleKeyDict == [t |-> "dict", d |-> <<>>, tuple_key |-> TRUE]
EmptyDict == PyDict(<<>>)

\* _json_default(value), lines 11-14 (Timestamp and NaT are datetime subclasses)
_json_default(value) ==
  CASE value.t = "Timestamp" -> PyStr(value.date \o "T00:00:00")
    [] value.t = "NaT" -> PyStr("NaT")
    [] OTHER -> PyStr(str(value))

JsonNative == {"None", "bool", "int", "float", "str"}

\* whether json.dumps(v, default=_json_default) raises
RECURSIVE DumpsRaises(_)
DumpsRaises(v) ==
  CASE v.t = "dict" ->
         \/ "tuple_key" \in DOMAIN v
         \/ \E k \in DOMAIN v.d : DumpsRaises(v.d[k])
    [] v.t = "list" -> \E i \in DOMAIN v.items : DumpsRaises(v.items[i])
    [] OTHER -> FALSE

\* the JSON value json.dumps writes for v
RECURSIVE Encode(_)
Encode(v) ==
  CASE v.t = "dict" -> PyDict([k \in DOMAIN v.d |-> Encode(v.d[k])])
    [] v.t = "list" -> PyList([i \in DOMAIN v.items |-> Encode(v.items[i])])
    [] v.t \in JsonNative -> v
    [] OTHER -> _json_default(v)

json_dumps(v) ==
  IF DumpsRaises(v)
    THEN Raise("keys must be str, int, float, bool or None, not tuple")
    ELSE Ret(Encode(v))

\* What stdin holds: a text, or the JSON text of an object with these fields.
Text(s) == [kind |-> "text", text |-> s]
ObjectText(d) == [kind |-> "object", fields |-> d]

\* json.loads(text), line 144
json_loads(in) ==
  IF in.kind = "object" THEN Ret(PyDict(in.fields))
  ELSE CASE in.text = "{}" -> Ret(EmptyDict)
         [] in.text = "[1]" -> Ret(PyList(<<PyInt(1)>>))
         [] in.text = "null" -> Ret(None)
         [] in.text = "42" -> Ret(PyInt(42))
         [] in.text = "\"search\"" -> Ret(PyStr("search"))
         [] in.text = " " -> Raise("Expecting value: line 1 column 2 (char 1)")
         [] in.text = "{" ->
              Raise("Expecting property name enclosed in double quotes: line 1 column 2 (char 1)")
         [] OTHER -> Raise("Expecting value: line 1 column 1 (char 0)")

\* a read without the default for empty input
ReadAsIs(in) == in

\* sys.stdin.read() or "{}", line 144
ReadOrDefault(in) == IF in = Text("") THEN Text("{}") ELSE in

\* the name Python gives the type of v in an AttributeError
TypeName(v) == IF v.t = "None" THEN "NoneType" ELSE v.t

\* payload.get(key), lines 145-164: only a dict has .get
Get(p, key) ==
  IF p.t = "dict"
    THEN Ret(IF key \in DOMAIN p.d THEN p.d[key] ELSE None)
    ELSE Raise("'" \o TypeName(p) \o "' object has no attribute 'get'")

(***************************************************************************)
(* respond (lines 17-24): the payload built, and the text written.         *)
(***************************************************************************)
\* a respond that passes the error text through, empty or not
ErrorAsGiven(error) == error

\* line 23: error or "unknown error"
ErrorOrUnknown(error) == IF Truthy(error) THEN error ELSE PyStr("unknown error")

\* a respond that fills data and source before it looks at ok
ResponsePayloadDataAlways(ok, d, error) ==
  IF ok
    THEN PyDict(("ok" :> PyBool(ok)) @@ ("data" :> d)
                @@ ("source" :> PyStr("yfinance/yahoo")))
    ELSE PyDict(("ok" :> PyBool(ok)) @@ ("data" :> d)
                @@ ("error" :> ErrorOrUnknown(error)))

\* lines 18-23
ResponsePayload(ok, d, error) ==
  IF ok
    THEN PyDict(("ok" :> PyBool(ok)) @@ ("data" :> d)
                @@ ("source" :> PyStr("yfinance/yahoo")))
    ELSE PyDict(("ok" :> PyBool(ok)) @@ ("error" :> ErrorOrUnknown(error)))

\* line 24: the text handed to sys.stdout.write, or the exception json.dumps
\* raises before anything is written
respond(ok, d, error) == json_dumps(ResponsePayload(ok, d, error))

(***************************************************************************)
(* The provider (external): what its calls may return or raise.            *)
(***************************************************************************)
\* str() of the exceptions the provider's calls raise; an exception built
\* without arguments has the empty text
ProviderErrors == {"", "HTTP Error 404: Not Found"}

Seqs(S, n) == UNION {[1..k -> S] : k \in 0..n}

\* Price history: per table one index layout, one set of columns, and one
\* column whose cells vary freely per bar; the other cells are floats.
BarDates == <<"2024-01-02", "2024-01-03", "2024-01-04", "2024-01-05">>
PriceColumns == {"Open", "High", "Low", "Close", "Volume"}
IrregularValues == {PyFloat(1), PyInt(2), NaN, PyStr("7"), PyStr("n/a")}
DefaultLayout == [name |-> PyStr("Date"), kind |-> "Timestamp"]
IndexLayouts ==
  {DefaultLayout,
   [name |-> PyStr("Datetime"), kind |-> "Timestamp"],
   [name |-> None, kind |-> "Timestamp"],
   [name |-> PyStr("Date"), kind |-> "date"],
   [name |-> PyStr("Date"), kind |-> "str"]}
ColumnSets ==
  {PriceColumns} \cup {PriceColumns \ {c} : c \in PriceColumns}
  \cup {PriceColumns \cup {"Datetime"}}
HistoryShapes ==
  {sh \in IndexLayouts \X ColumnSets : sh[1] = DefaultLayout \/ sh[2] = PriceColumns}

IndexValue(kind, i) ==
  CASE kind = "Timestamp" -> Timestamp(BarDates[i])
    [] kind = "date" -> PyDate(BarDates[i])
    [] OTHER -> PyStr(BarDates[i])

HistoryTable(layout, columns, irregular, cells) ==
  [index_name |-> layout.name,
   index |-> [i \in 1..Len(cells) |-> IndexValue(layout.kind, i)],
   rows |-> [i \in 1..Len(cells) |->
              [col \in columns |->
                 IF col = irregular THEN cells[i]
                 ELSE IF col = "Datetime" THEN Timestamp(BarDates[i])
                 ELSE PyFloat(100 + i)]]]

HistoryTables ==
  {HistoryTable(sh[1], sh[2], c, cells) :
     sh \in HistoryShapes, c \in PriceColumns, cells \in Seqs(IrregularValues, MaxBars)}

\* what ticker.history(...) returns
HistoryResults == {None} \cup HistoryTables

\* Statement tables given to df_to_records alone: every table of at most
\* MaxPeriods columns and MaxItems rows over these labels and cell values.
PeriodLabels ==
  {Timestamp("2023-12-31"), Timestamp("2022-12-31"), PyStr("2023-12-31"), NaT}
ItemLabels == {PyStr("Total Revenue"), PyStr("Net Income"), PyStr("report_period")}
CellValues == {PyInt(42), PyFloat(7), NaN, PyStr("n/a")}

StatementTable(cols, idx, vals) == [columns |-> cols, index |-> idx, values |-> vals]

\* what a statement accessor of the ticker returns when main() runs: the
\* tables over fixed labels whose cells alternate between two values
ProviderPeriods ==
  <<Timestamp("2023-12-31"), Timestamp("2022-12-31"), Timestamp("2021-12-31")>>
ProviderItems == <<PyStr("Total Revenue"), PyStr("Net Income"), PyStr("EBITDA")>>
ProviderStatements ==
  {None} \cup
  {StatementTable(SubSeq(ProviderPeriods, 1, c), SubSeq(ProviderItems, 1, r),
                  [i \in 1..r |-> [j \in 1..c |-> IF (i + j) % 2 = 0 THEN v ELSE w]]) :
     c \in 0..MaxPeriods, r \in 0..MaxItems, v \in CellValues, w \in CellValues}

\* resp.json(), ticker.news, ticker.info
SearchResponses ==
  {PyDict("quotes" :> PyList(<<>>)),
   PyDict("quotes" :> PyList(<<PyDict("symbol" :> PyStr("AAPL"))>>))}
NewsValues ==
  {PyList(<<>>),
   PyList(<<PyDict(("title" :> PyStr("Apple")) @@ ("published" :> Timestamp("2024-01-02")))>>),
   PyList(<<TupleKeyDict>>)}
InfoValues ==
  {None, EmptyDict,
   PyDict(("targetMeanPrice" :> PyFloat(150)) @@ ("recommendationKey" :> PyStr("buy"))
          @@ ("longName" :> PyStr("Apple Inc."))),
   PyDict(("forwardEps" :> PyInt(7)) @@ ("companyOfficers" :> TupleKeyDict))}

(***************************************************************************)
(* The handlers (lines 79-139).  Each yields the set of its outcomes: the  *)
(* provider calls made, the raw provider result, what the handler returns  *)
(* or raises, and where the exception arose.                               *)
(***************************************************************************)
Unset == [t |-> "unset"]
Call(fn, arg) == [fn |-> fn, arg |-> arg]
Outcome(cs, r, result, at) == [calls |-> cs, raw |-> r, result |-> result, at |-> at]

\* lines 79-83
handle_search(query) ==
  LET get == Call("requests.get", query)
      status == Call("raise_for_status", None)
      json == Call("json", None)
  IN  {Outcome(<<get>>, Unset, Raise(e), "provider") : e \in ProviderErrors}
      \cup {Outcome(<<get, status>>, Unset, Raise(e), "provider") : e \in ProviderErrors}
      \cup {Outcome(<<get, status, json>>, Unset, Raise(e), "provider") : e \in ProviderErrors}
      \cup {Outcome(<<get, status, json>>, [value |-> v], Ret(v), "") : v \in SearchResponses}

\* lines 87-94: interval_map.get(interval, interval)
interval_map ==
  ("minute" :> "1m") @@ ("day" :> "1d") @@ ("week" :> "1wk") @@ ("month" :> "1mo")
  @@ ("year" :> "1y")
YfInterval(interval) ==
  IF interval.t = "str" /\ interval.s \in DOMAIN interval_map
    THEN PyStr(interval_map[interval.s]) ELSE interval

\* lines 86-97
handle_history(symbol, start_date, end_date, interval) ==
  LET ticker == Call("yf.Ticker", symbol)
      history == Call("history", PyList(<<start_date, end_date, YfInterval(interval)>>))
  IN  {Outcome(<<ticker>>, Unset, Raise(e), "provider") : e \in ProviderErrors}
      \cup {Outcome(<<ticker, history>>, Unset, Raise(e), "provider") : e \in ProviderErrors}
      \cup {Outcome(<<ticker, history>>, [df |-> df], normalize_history(df), "normalize") :
              df \in HistoryResults}

\* lines 100-102
handle_news(symbol) ==
  LET ticker == Call("yf.Ticker", symbol)
      news == Call("news", None)
  IN  {Outcome(<<ticker>>, Unset, Raise(e), "provider") : e \in ProviderErrors}
      \cup {Outcome(<<ticker, news>>, Unset, Raise(e), "provider") : e \in ProviderErrors}
      \cup {Outcome(<<ticker, news>>, [value |-> v], Ret(v), "") : v \in NewsValues}

\* ticker.info or {}
InfoOrEmpty(info) == IF Truthy(info) THEN info ELSE EmptyDict

\* info.get(key)
InfoGet(info, key) == IF key \in DOMAIN info.d THEN info.d[key] ELSE None

EstimateFields ==
  {"targetMeanPrice", "targetHighPrice", "targetLowPrice", "recommendationMean",
   "recommendationKey", "numberOfAnalystOpinions", "forwardEps", "trailingEps"}

\* lines 108-119
Estimates(info) ==
  PyDict("info" :> PyDict([f \in EstimateFields |-> InfoGet(info, f)]))

\* lines 105-120
handle_estimates(symbol) ==
  LET ticker == Call("yf.Ticker", symbol)
      info == Call("info", None)
  IN  {Outcome(<<ticker>>, Unset, Raise(e), "provider") : e \in ProviderErrors}
      \cup {Outcome(<<ticker, info>>, Unset, Raise(e), "provider") : e \in ProviderErrors}
      \cup {Outcome(<<ticker, info>>, [value |-> v], Ret(Estimates(InfoOrEmpty(v))), "") :
              v \in InfoValues}

\* lines 123-125
handle_info(symbol) ==
  LET ticker == Call("yf.Ticker", symbol)
      info == Call("info", None)
  IN  {Outcome(<<ticker>>, Unset, Raise(e), "provider") : e \in ProviderErrors}
      \cup {Outcome(<<ticker, info>>, Unset, Raise(e), "provider") : e \in ProviderErrors}
      \cup {Outcome(<<ticker, info>>, [value |-> v], Ret(InfoOrEmpty(v)), "") :
              v \in InfoValues}

\* a selection whose balance branch reads the income accessors
StatementAccessorsNoBalance(statement_type) ==
  IF statement_type = PyStr("income") \/ statement_type = PyStr("balance")
    THEN <<"financials", "quarterly_financials">>
  ELSE <<"cashflow", "quarterly_cashflow">>

\* lines 130-138: the annual and the quarterly accessor read
StatementAccessors(statement_type) ==
  IF statement_type = PyStr("income")
    THEN <<"financials", "quarterly_financials">>
  ELSE IF statement_type = PyStr("balance")
    THEN <<"balance_sheet", "quarterly_balance_sheet">>
  ELSE <<"cashflow", "quarterly_cashflow">>

\* line 139
StatementsResult(annual, quarterly) ==
  PyDict(("annual" :> df_to_records(annual)) @@ ("quarterly" :> df_to_records(quarterly)))

\* lines 128-139
handle_statements(symbol, statement_type) ==
  LET ticker == Call("yf.Ticker", symbol)
      acc == StatementAccessors(statement_type)
      annual == Call(acc[1], None)
      quarterly == Call(acc[2], None)
  IN  {Outcome(<<ticker>>, Unset, Raise(e), "provider") : e \in ProviderErrors}
      \cup {Outcome(<<ticker, annual>>, Unset, Raise(e), "provider") : e \in ProviderErrors}
      \cup {Outcome(<<ticker, annual, quarterly>>, Unset, Raise(e), "provider") :
              e \in ProviderErrors}
      \cup {Outcome(<<ticker, annual, quarterly>>, [annual |-> a, quarterly |-> q],
                    Ret(StatementsResult(a, q)), "") :
              a \in ProviderStatements, q \in ProviderStatements}

(***************************************************************************)
(* The requests on stdin.                                                  *)
(***************************************************************************)
KnownActions == {"search", "history", "news", "estimates", "info", "statements"}

\* values of "action" that name no handler
OtherActions == {PyStr("Search"), PyStr("quote"), PyStr(""), None, PyInt(1)}

NoField == <<>>
SymbolField == {NoField, "symbol" :> PyStr("AAPL")}
Window == ("start_date" :> PyStr("2024-01-02")) @@ ("end_date" :> PyStr("2024-01-06"))

Requests ==
  {a @@ s : a \in {NoField} \cup {"action" :> v : v \in OtherActions}, s \in SymbolField}
  \cup {("action" :> PyStr("search")) @@ q : q \in {NoField, "query" :> PyStr("apple")}}
  \cup {("action" :> PyStr(a)) @@ s : a \in {"news", "estimates", "info"}, s \in SymbolField}
  \cup {("action" :> PyStr("history")) @@ ("symbol" :> PyStr("AAPL")) @@ Window @@ i :
          i \in {NoField, "interval" :> PyStr("day")}}
  \cup {("action" :> PyStr("statements")) @@ ("symbol" :> PyStr("AAPL")) @@ st :
          st \in {NoField} \cup {"statement_type" :> PyStr(x) :
                                   x \in {"income", "balance", "cashflow", "equity"}}}

\* texts that are no JSON object
RawTexts == {"", " ", "not json", "{", "[1]", "null", "42", "\"search\"", "{}"}

Inputs == {Text(s) : s \in RawTexts} \cup {ObjectText(d) : d \in Requests}

(***************************************************************************)
(* main (lines 142-169).                                                   *)
(***************************************************************************)
Init ==
  /\ pc = "start"
  /\ stdin \in Inputs
  /\ payload = Unset
  /\ action = Unset
  /\ calls = <<>>
  /\ handlers = <<>>
  /\ raw = Unset
  /\ data = Unset
  /\ exc = Unset
  /\ stdout = <<>>

Exception(msg, at) == [t |-> "Exception", msg |-> msg, at |-> at]

\* payload.get(key) of a payload known to be a dict
Field(key) == Get(payload, key).value

\* lines 144-145
ReadRequest ==
  /\ pc = "start"
  /\ LET loaded == json_loads(ReadOrDefault(stdin))
         got == IF loaded.raised THEN loaded ELSE Get(loaded.value, "action")
     IN  /\ payload' = IF loaded.raised THEN payload ELSE loaded.value
         /\ IF got.raised
              THEN /\ exc' = Exception(got.exc, "parse")
                   /\ pc' = "except"
                   /\ action' = action
              ELSE /\ action' = got.value
                   /\ pc' = "dispatch"
                   /\ exc' = exc
  /\ UNCHANGED <<stdin, calls, handlers, raw, data, stdout>>

\* the handler named `name` invoked: one of its outcomes happens
Invoke(name, outcomes) ==
  /\ pc = "dispatch"
  /\ handlers' = Append(handlers, name)
  /\ \E o \in outcomes :
       /\ calls' = calls \o o.calls
       /\ raw' = o.raw
       /\ IF o.result.raised
            THEN /\ exc' = Exception(o.result.exc, o.at)
                 /\ pc' = "except"
                 /\ data' = data
            ELSE /\ data' = o.result.value
                 /\ pc' = "respond"
                 /\ exc' = exc
  /\ UNCHANGED <<stdin, payload, action, stdout>>

\* lines 147-149
Search ==
  /\ action = PyStr("search")
  /\ Invoke("handle_search", handle_search(Field("query")))

\* lines 151-152
History ==
  /\ action = PyStr("history")
  /\ Invoke("handle_history",
            handle_history(Field("symbol"), Field("start_date"), Field("end_date"),
                           Field("interval")))

\* lines 154-155
News ==
  /\ action = PyStr("news")
  /\ Invoke("handle_news", handle_news(Field("symbol")))

\* lines 157-158
EstimatesAction ==
  /\ action = PyStr("estimates")
  /\ Invoke("handle_estimates", handle_estimates(Field("symbol")))

\* lines 160-161
Info ==
  /\ action = PyStr("info")
  /\ Invoke("handle_info", handle_info(Field("symbol")))

\* a dispatch whose last branch is an else: statements for every other action
StatementsAsDefault ==
  /\ action \notin {PyStr(a) : a \in KnownActions \ {"statements"}}
  /\ Invoke("handle_statements",
            handle_statements(Field("symbol"), Field("statement_type")))

\* lines 163-164
Statements ==
  /\ action = PyStr("statements")
  /\ Invoke("handle_statements",
            handle_statements(Field("symbol"), Field("statement_type")))

\* respond(ok, d, error) called at program point `at`: the text is written, or
\* json.dumps raised and nothing was written
Write(ok, d, error, at, caught) ==
  LET r == respond(ok, d, error)
  IN  IF r.raised
        THEN /\ exc' = Exception(r.exc, at)
             /\ pc' = IF caught THEN "except" ELSE "raised"
             /\ stdout' = stdout
        ELSE /\ stdout' = Append(stdout, r.value)
             /\ pc' = "done"
             /\ exc' = exc

\* respond(True, <handler result>) and return, lines 149-165
RespondOk ==
  /\ pc = "respond"
  /\ Write(TRUE, data, None, "serialize", TRUE)
  /\ UNCHANGED <<stdin, payload, action, calls, handlers, raw, data>>

\* a fall-through that responds without naming the error
UnsupportedUnnamed ==
  /\ pc = "dispatch"
  /\ action \notin {PyStr(a) : a \in KnownActions}
  /\ Write(FALSE, None, None, "serialize", TRUE)
  /\ UNCHANGED <<stdin, payload, action, calls, handlers, raw, data>>

\* line 167: no branch of lines 147-165 was taken
Unsupported ==
  /\ pc = "dispatch"
  /\ action \notin {PyStr(a) : a \in KnownActions}
  /\ Write(FALSE, None, PyStr("Unsupported action"), "serialize", TRUE)
  /\ UNCHANGED <<stdin, payload, action, calls, handlers, raw, data>>

\* a handler that swallows the exception and writes nothing
ExceptSilent ==
  /\ pc = "except"
  /\ pc' = "done"
  /\ UNCHANGED <<stdin, payload, action, calls, handlers, raw, data, exc, stdout>>

\* lines 168-169: except Exception as exc: respond(False, error=str(exc))
Except ==
  /\ pc = "except"
  /\ Write(FALSE, None, PyStr(exc.msg), "except", FALSE)
  /\ UNCHANGED <<stdin, payload, action, calls, handlers, raw, data>>

Next ==
  \/ ReadRequest
  \/ Search
  \/ History
  \/ News
  \/ EstimatesAction
  \/ Info
  \/ Statements
  \/ RespondOk
  \/ Unsupported
  \/ Except

Spec == Init /\ [][Next]_vars

(***************************************************************************)
(* The two normalizers alone: the table is drawn at the start, one step    *)
(* applies the function.                                                   *)
(***************************************************************************)
Idle ==
  /\ stdin = Unset
  /\ payload = Unset
  /\ action = Unset
  /\ calls = <<>>
  /\ handlers = <<>>
  /\ data = Unset
  /\ exc = Unset
  /\ stdout = <<>>

InitRecords ==
  /\ pc = "df_to_records"
  /\ Idle
  /\ \/ raw = [df |-> None]
     \/ \E cols \in Seqs(PeriodLabels, MaxPeriods), idx \in Seqs(ItemLabels, MaxItems) :
          \E vals \in [1..Len(idx) -> [1..Len(cols) -> CellValues]] :
            raw = [df |-> StatementTable(cols, idx, vals)]

ApplyRecords ==
  /\ pc = "df_to_records"
  /\ data' = df_to_records(raw.df)
  /\ pc' = "returned"
  /\ UNCHANGED <<stdin, payload, action, calls, handlers, raw, exc, stdout>>

SpecRecords == InitRecords /\ [][ApplyRecords]_vars

InitHistory ==
  /\ pc = "normalize_history"
  /\ Idle
  /\ \E df \in HistoryResults : raw = [df |-> df]

ApplyHistory ==
  /\ pc = "normalize_history"
  /\ LET r == normalize_history(raw.df)
     IN  IF r.raised
           THEN exc' = Exception(r.exc, "normalize") /\ pc' = "raised" /\ data' = data
           ELSE data' = r.value /\ pc' = "returned" /\ exc' = exc
  /\ UNCHANGED <<stdin, payload, action, calls, handlers, raw, stdout>>

SpecHistory == InitHistory /\ [][ApplyHistory]_vars

(***************************************************************************)
(* Properties.                                                             *)
(***************************************************************************)
\* the i-th JSON object written to stdout, as a mapping
Envelope(i) == stdout[i].d
IsFailure(e) == e["ok"] = PyBool(FALSE)
IsSuccess(e) == e["ok"] = PyBool(TRUE)
UnsupportedEnvelope ==
  PyDict(("ok" :> PyBool(FALSE)) @@ ("error" :> PyStr("Unsupported action")))
ActionNames == {"search", "history", "news", "estimates", "info", "statements"}
NamedActions == {PyStr(a) : a \in ActionNames}
Raised == exc # Unset

\* C1: a run of main() that returns has written exactly one envelope, never
\* none and never two, and nothing is written before; when the provider
\* interaction raised, that envelope has ok = false and a non-empty error.
C1_ExactlyOneEnvelope ==
  /\ Len(stdout) <= 1
  /\ pc = "done" <=> Len(stdout) = 1
  /\ (pc = "done" /\ Raised /\ exc.at = "provider") =>
       /\ IsFailure(Envelope(1))
       /\ Envelope(1)["error"].t = "str"
       /\ Envelope(1)["error"].s # ""

\* a run in which the provider raised an exception with an empty text returned
C1_Witness ==
  /\ pc = "done"
  /\ Raised /\ exc.at = "provider" /\ exc.msg = ""
  /\ Len(stdout) = 1

\* C2: every envelope has exactly one of data / error, governed by ok: ok true
\* gives ok, data and source = "yfinance/yahoo"; ok false gives ok and error.
EnvelopeShape(e) ==
  IF IsSuccess(e)
    THEN DOMAIN e = {"ok", "data", "source"} /\ e["source"] = PyStr("yfinance/yahoo")
    ELSE IsFailure(e) /\ DOMAIN e = {"ok", "error"}

C2_DataXorError ==
  /\ \A i \in DOMAIN stdout : EnvelopeShape(Envelope(i))
  /\ pc = "respond" => EnvelopeShape(ResponsePayload(TRUE, data, None).d)
  /\ pc = "except" => EnvelopeShape(ResponsePayload(FALSE, None, PyStr(exc.msg)).d)

\* a failure envelope was written after the handler's result could not be
\* serialized: respond built a success payload and then a failure payload
C2_Witness ==
  /\ pc = "done"
  /\ Raised /\ exc.at = "serialize"
  /\ IsFailure(Envelope(1))
  /\ "data" \notin DOMAIN Envelope(1)

\* C3: a request object whose action is missing or is none of the six names is
\* answered with exactly {ok: false, error: "Unsupported action"}.
C3_UnsupportedAction ==
  (pc = "done" /\ payload.t = "dict" /\ Get(payload, "action").value \notin NamedActions)
    => stdout = <<UnsupportedEnvelope>>

\* a request that misnames the action ("Search") was answered
C3_Witness ==
  /\ pc = "done"
  /\ payload.t = "dict"
  /\ "action" \in DOMAIN payload.d
  /\ payload.d["action"] = PyStr("Search")
  /\ stdout = <<UnsupportedEnvelope>>

\* input that is absent, no valid JSON, or JSON that is no object
Malformed == stdin.kind = "text" /\ stdin.text # "{}"

\* C4 as stated: malformed or absent input is answered with the
\* "Unsupported action" failure envelope.
C4_AsStated ==
  (pc = "done" /\ Malformed) => stdout = <<UnsupportedEnvelope>>

\* C4 as amended: malformed or absent input never crashes main() and never
\* reaches the provider; it is answered with one failure envelope, whose error
\* is "Unsupported action" for empty input and otherwise the text of the
\* exception raised by json.loads or by payload.get.
C4_MalformedInput ==
  Malformed =>
    /\ pc # "raised"
    /\ calls = <<>>
    /\ pc = "done" =>
         /\ Len(stdout) = 1
         /\ IsFailure(Envelope(1))
         /\ IF stdin.text = ""
              THEN stdout = <<UnsupportedEnvelope>> /\ ~Raised
              ELSE /\ Raised /\ exc.at = "parse"
                   /\ Envelope(1)["error"] = PyStr(exc.msg)
                   /\ Envelope(1)["error"] # PyStr("Unsupported action")

\* JSON that is a list was answered with the AttributeError's text
C4_Witness ==
  /\ pc = "done"
  /\ stdin = Text("[1]")
  /\ Len(stdout) = 1
  /\ Envelope(1)["error"] = PyStr("'list' object has no attribute 'get'")

\* the provider calls a handler may make
HandlerCalls(a) ==
  CASE a = "search" -> {"requests.get", "raise_for_status", "json"}
    [] a = "history" -> {"yf.Ticker", "history"}
    [] a = "news" -> {"yf.Ticker", "news"}
    [] a \in {"estimates", "info"} -> {"yf.Ticker", "info"}
    [] OTHER -> {"yf.Ticker", "financials", "quarterly_financials", "balance_sheet",
                 "quarterly_balance_sheet", "cashflow", "quarterly_cashflow"}

\* C5: a run whose action is missing or unknown never calls the provider and
\* invokes no handler; a run with a known action invokes exactly one handler,
\* the one the action names, and only that handler's provider calls are made.
C5_Dispatch ==
  /\ action \notin NamedActions => handlers = <<>> /\ calls = <<>>
  /\ (action \in NamedActions /\ pc = "dispatch") => handlers = <<>> /\ calls = <<>>
  /\ (action \in NamedActions /\ pc # "dispatch") =>
       /\ handlers = <<"handle_" \o action.s>>
       /\ Len(calls) >= 1
       /\ \A i \in DOMAIN calls : calls[i].fn \in HandlerCalls(action.s)

\* an unknown action ("quote") was answered without any provider call
C5_Witness ==
  /\ pc = "done"
  /\ action = PyStr("quote")
  /\ calls = <<>> /\ handlers = <<>>
  /\ stdout = <<UnsupportedEnvelope>>

NoRetry == \A i, j \in DOMAIN calls : i # j => calls[i].fn # calls[j].fn

\* C6 as stated: every exception is caught and answered with a failure envelope
\* whose error is the exception's text; main() returns; no call is retried.
C6_AsStated ==
  /\ pc # "raised"
  /\ NoRetry
  /\ (pc = "done" /\ Raised) =>
       /\ Len(stdout) = 1
       /\ IsFailure(Envelope(1))
       /\ Envelope(1)["error"] = PyStr(exc.msg)

\* C6 as amended: the error is the exception's text when that text is not
\* empty, and "unknown error" when it is empty; the rest as stated.
C6_ExceptionToEnvelope ==
  /\ pc # "raised"
  /\ NoRetry
  /\ Len(handlers) <= 1
  /\ (pc = "done" /\ Raised) =>
       /\ Len(stdout) = 1
       /\ IsFailure(Envelope(1))
       /\ Envelope(1)["error"] =
            IF exc.msg = "" THEN PyStr("unknown error") ELSE PyStr(exc.msg)

\* the normalizer raised on a price that is no number, and the ValueError's
\* text was answered
C6_Witness ==
  /\ pc = "done"
  /\ Raised /\ exc.at = "normalize" /\ exc.msg # ""
  /\ Len(stdout) = 1
  /\ Envelope(1)["error"] = PyStr(exc.msg)

\* the line items of df whose label stringifies to key
ItemsKeyed(df, key) == {i \in DOMAIN df.index : df.index[i].s = key}

\* C7: df_to_records emits no field for a not-a-number cell, emits report_period
\* as a string in every record, emits integer and floating-point cells as
\* floats (a 1x1 table holding integer 42 gives one record whose line-item
\* field is 42.0), and gives the empty sequence for an empty or absent table.
C7_StatementRecords ==
  pc = "returned" =>
    LET df == raw.df
        recs == data.items
    IN  IF df = None \/ Len(df.columns) = 0 \/ Len(df.index) = 0
          THEN recs = <<>>
          ELSE /\ Len(recs) = Len(df.columns)
               /\ \A j \in DOMAIN recs :
                    /\ "report_period" \in DOMAIN recs[j].d
                    /\ recs[j].d["report_period"].t = "str"
                    /\ \A k \in DOMAIN recs[j].d \ {"report_period"} :
                         /\ recs[j].d[k].t # "int"
                         /\ \E i \in ItemsKeyed(df, k) : ~IsNaN(df.values[i][j])
                    /\ \A i \in DOMAIN df.index :
                         (IsNaN(df.values[i][j]) /\ ItemsKeyed(df, df.index[i].s) = {i})
                           => df.index[i].s \notin DOMAIN recs[j].d
               /\ (Len(df.columns) = 1 /\ Len(df.index) = 1
                   /\ df.values[1][1] = PyInt(42)) =>
                    recs[1].d[df.index[1].s] = PyFloat(42)

\* the record field made of each price column
FieldOf ==
  ("Open" :> "open") @@ ("High" :> "high") @@ ("Low" :> "low") @@ ("Close" :> "close")
  @@ ("Volume" :> "volume")

C9_GracefulNormalization ==
  (handlers \in {<<"handle_history">>, <<"handle_statements">>} /\ raw # Unset) =>
    /\ pc # "except"
    /\ pc = "done" => Len(stdout) = 1 /\ IsSuccess(Envelope(1))

\* one side of a statements result against the table it was made of
SideOf(df, recs) ==
  /\ recs.t = "list"
  /\ IF df = None \/ Len(df.columns) = 0 \/ Len(df.index) = 0
       THEN recs.items = <<>>
       ELSE /\ Len(recs.items) = Len(df.columns)
            /\ \A j \in DOMAIN recs.items :
                 recs.items[j].d["report_period"] = PyStr(df.columns[j].date)

\* C10: statements reads the income accessors for "income", the balance
\* accessors for "balance" and the cashflow accessors otherwise, and returns
\* {annual, quarterly}, each side the records of its own table: [] for an empty
\* table, one record per column otherwise.
C10_Statements ==
  handlers = <<"handle_statements">> =>
    LET st == Get(payload, "statement_type").value
        expected == IF st = PyStr("income")
                      THEN <<"financials", "quarterly_financials">>
                    ELSE IF st = PyStr("balance")
                      THEN <<"balance_sheet", "quarterly_balance_sheet">>
                    ELSE <<"cashflow", "quarterly_cashflow">>
    IN  /\ \A i \in 2..Len(calls) : calls[i].fn = expected[i - 1]
        /\ pc = "respond" =>
             /\ Len(calls) = 3
             /\ data.t = "dict"
             /\ DOMAIN data.d = {"annual", "quarterly"}
             /\ SideOf(raw.annual, data.d["annual"])
             /\ SideOf(raw.quarterly, data.d["quarterly"])
        /\ (pc = "done" /\ ~Raised) =>
             /\ IsSuccess(Envelope(1))
             /\ SideOf(raw.annual, Envelope(1)["data"].d["annual"])
             /\ SideOf(raw.quarterly, Envelope(1)["data"].d["quarterly"])

\* a balance request answered from an empty annual table and a quarterly table
\* of two periods
C10_Witness ==
  /\ pc = "done"
  /\ handlers = <<"handle_statements">>
  /\ ~Raised
  /\ Get(payload, "statement_type").value = PyStr("balance")
  /\ raw.annual # None /\ Len(raw.annual.columns) = 0
  /\ raw.quarterly # None
  /\ Len(raw.quarterly.columns) = 2 /\ Len(raw.quarterly.index) >= 1
  /\ Envelope(1)["data"].d["annual"].items = <<>>
  /\ Len(Envelope(1)["data"].d["quarterly"].items) = 2

====
